---- MODULE Spec2Model ----
(***************************************************************************)
(* Model of the email contact database (src/app.py): the users table, the  *)
(* start-up bootstrap, the repository functions find_emails / insert_email,*)
(* the index request handler, and the start-up configuration functions     *)
(* fetch_rds_credentials / build_sqlalchemy_uri.                           *)
(*                                                                         *)
(* Text that the code inspects character by character (usernames, emails,  *)
(* search keywords) is a sequence of one-character strings.  Configuration *)
(* values, which the code only tests for truthiness and copies, are plain  *)
(* strings, with NoneVal standing for Python's None.                       *)
(***************************************************************************)
EXTENDS Naturals, Sequences, FiniteSets

VARIABLES
    users,      \* the rows of table users: a set of <<username, email>>
    phase,      \* "boot" before the bootstrap block has run, then "serving"
    pc,         \* per request thread: where it is inside index/insert_email
    last,       \* the response (or exception) most recently produced by index
    prior,      \* history: arguments of the insert_email call that returned success
                \* in the response sent last, else <<>>
    boots,      \* how many times the bootstrap block has run on this store
    cfg,        \* module globals DB_HOST, DB_NAME, DB_USER, DB_PASSWORD, SECRET_ARN
    secret,     \* what client.get_secret_value does for SECRET_ARN
    out         \* outcome of the configuration function applied last

vars == <<users, phase, pc, last, prior, boots, cfg, secret, out>>

(***************************************************************************)
(* Bounds of the model.                                                    *)
(***************************************************************************)
MaxLen == 1     \* longest generated form-field text, in characters
MaxRows == 2    \* rows a run may add on top of the seed rows
MaxBoots == 2   \* process starts on one store

(***************************************************************************)
(* Text helpers.                                                           *)
(***************************************************************************)
RECURSIVE SeqsUpTo(_, _)
SeqsUpTo(S, n) ==
    IF n = 0 THEN {<<>>}
    ELSE LET shorter == SeqsUpTo(S, n - 1)
         IN  shorter \cup {Append(s, c) : s \in {t \in shorter : Len(t) = n - 1}, c \in S}

\* x in s  for a one-character x
HasChar(s, c) == \E i \in 1..Len(s) : s[i] = c

RECURSIVE LStrip(_)
LStrip(s) == IF s # <<>> /\ Head(s) = " " THEN LStrip(Tail(s)) ELSE s

RECURSIVE RStrip(_)
RStrip(s) ==
    IF s # <<>> /\ s[Len(s)] = " " THEN RStrip(SubSeq(s, 1, Len(s) - 1)) ELSE s

\* str.strip()
Strip(s) == RStrip(LStrip(s))

\* SQL  s LIKE p : % matches any run of characters, _ matches any one character;
\* no escape character (SQLite's default); the texts here are lower case, so
\* the store's case rule does not show
RECURSIVE Like(_, _)
Like(s, p) ==
    IF p = <<>> THEN s = <<>>
    ELSE IF Head(p) = "%" THEN Like(s, Tail(p)) \/ (s # <<>> /\ Like(Tail(s), p))
    ELSE /\ s # <<>>
         /\ (Head(p) = "_" \/ Head(p) = Head(s))
         /\ Like(Tail(s), Tail(p))

\* s contains k as a contiguous substring
Contains(s, k) ==
    \E i \in 1..(Len(s) + 1) :
        /\ i + Len(k) - 1 <= Len(s)
        /\ SubSeq(s, i, i + Len(k) - 1) = k

(***************************************************************************)
(* The table and its seed rows.                                            *)
(***************************************************************************)
Andrii == <<"a", "n", "d", "r", "i", "i">>
Olena == <<"o", "l", "e", "n", "a">>
Max == <<"m", "a", "x">>
ExampleCom == <<"@", "e", "x", "a", "m", "p", "l", "e", ".", "c", "o", "m">>

SeedRows ==
    { <<Andrii, Andrii \o ExampleCom>>,
      <<Olena, Olena \o ExampleCom>>,
      <<Max, Max \o ExampleCom>> }

\* PRIMARY KEY (username): what the store checks on every INSERT
PrimaryKeyFree(table, row) == \A t \in table : t[1] # row[1]

(***************************************************************************)
(* Form-field inputs.                                                      *)
(***************************************************************************)
NameChars == {"a", "%", " "}
RawNames == SeqsUpTo(NameChars, MaxLen) \cup {Andrii}

A_B_C == <<"a", "@", "b", ".", "c">>
X_Y_Z == <<"x", "@", "y", ".", "z">>
RawEmails ==
    { <<>>,
      A_B_C,
      <<"a", "@", "b">>,
      <<"a", ".", "b">>,
      <<" ">> \o X_Y_Z \o <<" ">> }

EmptyForm == [k \in {} |-> <<>>]

\* request.form of a POST: the fields present and their text
Forms ==
    { [k \in {"user_keyword"} \cup extra |->
          IF k = "user_keyword" THEN kw ELSE IF k = "username" THEN Max ELSE X_Y_Z]
        : kw \in RawNames, extra \in SUBSET {"username", "useremail"} }
    \cup { [username |-> n, useremail |-> e] : n \in RawNames, e \in RawEmails }
    \cup { [username |-> n] : n \in RawNames }
    \cup { [useremail |-> A_B_C] }
    \cup { EmptyForm }


(***************************************************************************)
(* Values rendered by index.                                               *)
(***************************************************************************)
NoRows == [tag |-> "None", rows |-> {}]
UserNotFound == [tag |-> "User not found", rows |-> {}]
RowList(rs) == [tag |-> "rows", rows |-> rs]

NoFeedback == [fmt |-> "None", args |-> <<>>]
EmptyFieldMsg == [fmt |-> "Username or email cannot be empty!", args |-> <<>>]
InvalidEmailMsg == [fmt |-> "Please provide a valid email address.", args |-> <<>>]
AlreadyExistsMsg(name) == [fmt |-> "User {name} already exists.", args |-> <<name>>]
AddedMsg(name, email) ==
    [fmt |-> "User {name} with email {email} has been added successfully.",
     args |-> <<name, email>>]

SelectLike == "SELECT username, email FROM users WHERE username LIKE :kw"
SelectOne == "SELECT 1 FROM users WHERE username = :n"
InsertRow == "INSERT INTO users (username, email) VALUES (:n, :e)"

Idle == [at |-> "idle", form |-> EmptyForm, name |-> <<>>, email |-> <<>>]

\* what index produced and has not sent yet: the template arguments (or the
\* exception that left it), with the request, the repository call made, its
\* arguments and the statements it sent to the store
Response(w, method, form, call, args, rows, feedback, raised, stmts) ==
    [w |-> w, method |-> method, form |-> form, call |-> call, args |-> args,
     name_emails |-> rows, feedback |-> feedback, raised |-> raised, stmts |-> stmts]

NoResponse ==
    Response(0, "None", EmptyForm, "None", <<>>, NoRows, NoFeedback, "None", <<>>)

IsAdded(r) ==
    /\ r.call = "insert_email"
    /\ r.raised = "None"
    /\ r.feedback = AddedMsg(r.args[1], r.args[2])

\* the response goes out; the thread is free for the next request
Reply ==
    /\ last # NoResponse
    /\ last' = NoResponse
    /\ prior' = IF IsAdded(last) THEN last.args ELSE <<>>
    /\ UNCHANGED <<users, phase, pc, boots, cfg, secret, out>>

(***************************************************************************)
(* Bootstrap block.                                                        *)
(***************************************************************************)
\* variant: seeds without looking at the count
SeedAlways(table) == table \cup SeedRows

\* SELECT COUNT(*); seed when it is zero; commit
SeedIfEmpty(table) == IF Cardinality(table) = 0 THEN table \cup SeedRows ELSE table

Bootstrap ==
    /\ phase = "boot"
    /\ users' = SeedIfEmpty(users)
    /\ phase' = "serving"
    /\ boots' = boots + 1
    /\ UNCHANGED <<pc, last, prior, cfg, secret, out>>

\* the process is stopped and started again on the same store
Restart ==
    /\ phase = "serving"
    /\ boots < MaxBoots
    /\ \A w \in DOMAIN pc : pc[w].at = "idle"
    /\ last = NoResponse
    /\ phase' = "boot"
    /\ prior' = <<>>
    /\ UNCHANGED <<users, pc, last, boots, cfg, secret, out>>

(***************************************************************************)
(* Repository.                                                             *)
(***************************************************************************)
\* variant: the pattern is matched against the email column
LikeRowsOnEmail(table, keyword) ==
    {r \in table : Like(r[2], <<"%">> \o keyword \o <<"%">>)}

\* the rows the LIKE query of find_emails selects
LikeRows(table, keyword) == {r \in table : Like(r[1], <<"%">> \o keyword \o <<"%">>)}

find_emails(table, keyword) ==
    LET rows == LikeRows(table, keyword)
    IN  IF rows # {} THEN RowList(rows) ELSE UserNotFound

\* variant: the email format is checked before the empty fields
insert_validate_email_first(name, email) ==
    IF ~HasChar(email, "@") \/ ~HasChar(email, ".") THEN InvalidEmailMsg
    ELSE IF name = <<>> \/ email = <<>> THEN EmptyFieldMsg
    ELSE NoFeedback

\* the two checks insert_email makes before it touches the store
insert_validate(name, email) ==
    IF name = <<>> \/ email = <<>> THEN EmptyFieldMsg
    ELSE IF ~HasChar(email, "@") \/ ~HasChar(email, ".") THEN InvalidEmailMsg
    ELSE NoFeedback

\* the existence query of insert_email
Existed(table, name) == \E r \in table : r[1] = name

\* variant: the two bound parameters are swapped
ExecInsertSwapped(table, name, email) ==
    IF PrimaryKeyFree(table, <<name, email>>)
    THEN [raised |-> "None", table |-> table \cup {<<email, name>>}]
    ELSE [raised |-> "IntegrityError", table |-> table]

\* the INSERT of insert_email and its commit: the store refuses a second row
\* for a username (IntegrityError) and otherwise adds the row
ExecInsert(table, name, email) ==
    IF PrimaryKeyFree(table, <<name, email>>)
    THEN [raised |-> "None", table |-> table \cup {<<name, email>>}]
    ELSE [raised |-> "IntegrityError", table |-> table]

(***************************************************************************)
(* index.                                                                  *)
(***************************************************************************)
Ready(w) == phase = "serving" /\ pc[w].at = "idle" /\ last = NoResponse

\* variant: the Add form is tested before the Find form
index_branch_add_first(form) ==
    IF "username" \in DOMAIN form /\ "useremail" \in DOMAIN form THEN "add"
    ELSE IF "user_keyword" \in DOMAIN form THEN "find"
    ELSE "none"

\* the branch index takes for a POST
index_branch(form) ==
    IF "user_keyword" \in DOMAIN form THEN "find"
    ELSE IF "username" \in DOMAIN form /\ "useremail" \in DOMAIN form THEN "add"
    ELSE "none"

index_get(w) ==
    /\ Ready(w)
    /\ last' = Response(w, "GET", EmptyForm, "None", <<>>, NoRows, NoFeedback,
                        "None", <<>>)
    /\ UNCHANGED <<users, phase, pc, prior, boots, cfg, secret, out>>

index_find(w) ==
    /\ Ready(w)
    /\ \E form \in Forms :
        /\ index_branch(form) = "find"
        /\ LET kw == Strip(form["user_keyword"])
           IN  last' =
                 IF kw # <<>>
                 THEN Response(w, "POST", form, "find_emails", <<kw>>,
                               find_emails(users, kw), NoFeedback, "None",
                               <<SelectLike>>)
                 ELSE Response(w, "POST", form, "None", <<>>, UserNotFound,
                               NoFeedback, "None", <<>>)
    /\ UNCHANGED <<users, phase, pc, prior, boots, cfg, secret, out>>

\* index calling insert_email, up to and including the existence query
index_add(w) ==
    /\ Ready(w)
    /\ \E form \in Forms :
        /\ index_branch(form) = "add"
        /\ LET name == Strip(form["username"])
               email == Strip(form["useremail"])
               invalid == insert_validate(name, email)
           IN  IF invalid # NoFeedback
               THEN /\ last' = Response(w, "POST", form, "insert_email",
                                        <<name, email>>, NoRows, invalid, "None",
                                        <<>>)
                    /\ pc' = pc
               ELSE IF Existed(users, name)
               THEN /\ last' = Response(w, "POST", form, "insert_email",
                                        <<name, email>>, NoRows,
                                        AlreadyExistsMsg(name), "None",
                                        <<SelectOne>>)
                    /\ pc' = pc
               ELSE /\ Cardinality(users \ SeedRows) < MaxRows
                    /\ pc' = [pc EXCEPT ![w] =
                                 [at |-> "insert", form |-> form,
                                  name |-> name, email |-> email]]
                    /\ last' = last
    /\ UNCHANGED <<users, phase, prior, boots, cfg, secret, out>>

\* insert_email from the INSERT on; it has no handler for the IntegrityError
insert_email_write(w) ==
    /\ phase = "serving"
    /\ pc[w].at = "insert"
    /\ last = NoResponse
    /\ LET name == pc[w].name
           email == pc[w].email
           done == ExecInsert(users, name, email)
       IN  /\ users' = done.table
           /\ last' = Response(w, "POST", pc[w].form, "insert_email",
                               <<name, email>>, NoRows,
                               IF done.raised = "None"
                               THEN AddedMsg(name, email) ELSE NoFeedback,
                               done.raised, <<SelectOne, InsertRow>>)
    /\ pc' = [pc EXCEPT ![w] = Idle]
    /\ UNCHANGED <<phase, prior, boots, cfg, secret, out>>

index_other(w) ==
    /\ Ready(w)
    /\ \E form \in Forms :
        /\ index_branch(form) = "none"
        /\ last' = Response(w, "POST", form, "None", <<>>, NoRows, NoFeedback,
                            "None", <<>>)
    /\ UNCHANGED <<users, phase, pc, prior, boots, cfg, secret, out>>

(***************************************************************************)
(* Start-up configuration.                                                 *)
(***************************************************************************)
NoneVal == "<None>"

\* Python truthiness of an optional string
Truthy(x) == x \notin {NoneVal, ""}

\* a or b
PyOr(a, b) == IF Truthy(a) THEN a ELSE b

DB_PORT == 3306

CfgValues(v) == {NoneVal, "", v}

Cfgs ==
    [DB_HOST : CfgValues("db.example.org"), DB_NAME : CfgValues("emails"),
     DB_USER : CfgValues("dbuser"), DB_PASSWORD : CfgValues("dbpass"),
     SECRET_ARN : CfgValues("arn:secret")]

NoCfg ==
    [DB_HOST |-> NoneVal, DB_NAME |-> NoneVal, DB_USER |-> NoneVal,
     DB_PASSWORD |-> NoneVal, SECRET_ARN |-> NoneVal]

SecretKeys == {"username", "user", "password", "pass"}
SecretValue(k) ==
    CASE k = "username" -> "bob"
      [] k = "user" -> "usr"
      [] k = "password" -> "pw"
      [] k = "pass" -> "pw2"

NoFields == [k \in {} |-> ""]

\* the JSON text of an object: its keys, each with an empty or a non-empty string
ObjectFields ==
    UNION { { [k \in ks |-> IF k \in empties THEN "" ELSE SecretValue(k)]
                : empties \in SUBSET ks }
            : ks \in SUBSET SecretKeys }

\* What get_secret_value does.  A response carries SecretString or not (a binary
\* secret); the text is the JSON text of an object, the JSON text of another
\* value (a number), or text that is no JSON.
Secrets ==
    { [result |-> r, form |-> "absent", text |-> "", fields |-> NoFields]
        : r \in {"ClientError", "EndpointConnectionError", "ok"} }
    \cup { [result |-> "ok", form |-> "object", text |-> "{...}", fields |-> f]
             : f \in ObjectFields }
    \cup { [result |-> "ok", form |-> "scalar", text |-> "12345", fields |-> NoFields] }
    \cup { [result |-> "ok", form |-> "plain", text |-> "pw", fields |-> NoFields] }

NoSecret == [result |-> "ClientError", form |-> "absent", text |-> "", fields |-> NoFields]

\* json.loads: a dict for an object, another Python value for other JSON,
\* JSONDecodeError for text that is no JSON
json_loads(sec) ==
    CASE sec.form = "object" ->
            [error |-> "None", type |-> "dict", fields |-> sec.fields]
      [] sec.form = "scalar" ->
            [error |-> "None", type |-> "int", fields |-> NoFields]
      [] OTHER ->
            [error |-> "JSONDecodeError", type |-> "None", fields |-> NoFields]

\* dict.get
Get(d, k) == IF k \in DOMAIN d THEN d[k] ELSE NoneVal

Creds(raised, username, password) ==
    [raised |-> raised, username |-> username, password |-> password]

fetch_rds_credentials(sec) ==
    IF sec.result = "ClientError" THEN Creds("None", NoneVal, NoneVal)
    ELSE IF sec.result # "ok" THEN Creds(sec.result, NoneVal, NoneVal)
    ELSE IF sec.form = "absent" \/ sec.text = "" THEN Creds("None", NoneVal, NoneVal)
    ELSE LET data == json_loads(sec)
         IN  IF data.error = "JSONDecodeError" THEN Creds("None", "admin", sec.text)
             ELSE IF data.type # "dict" THEN Creds("AttributeError", NoneVal, NoneVal)
             ELSE Creds("None",
                        PyOr(Get(data.fields, "username"),
                             PyOr(Get(data.fields, "user"), "admin")),
                        PyOr(Get(data.fields, "password"), Get(data.fields, "pass")))

MySql(user, password, host, port, name) ==
    [scheme |-> "mysql+pymysql", user |-> user, password |-> password,
     host |-> host, port |-> port, name |-> name]

Sqlite ==
    [scheme |-> "sqlite", user |-> "", password |-> "", host |-> "", port |-> 0,
     name |-> "./email.db"]

Built(raised, uri, fetches) == [raised |-> raised, uri |-> uri, fetches |-> fetches]

\* variant: the secret is tried before the direct credentials
build_sqlalchemy_uri_secret_first(c, sec) ==
    IF Truthy(c.SECRET_ARN) /\ Truthy(c.DB_HOST) /\ Truthy(c.DB_NAME)
    THEN LET got == fetch_rds_credentials(sec)
         IN  IF got.raised # "None" THEN Built(got.raised, Sqlite, 1)
             ELSE IF Truthy(got.username) /\ Truthy(got.password)
             THEN Built("None",
                        MySql(got.username, got.password, c.DB_HOST, DB_PORT, c.DB_NAME),
                        1)
             ELSE Built("None", Sqlite, 1)
    ELSE IF Truthy(c.DB_HOST) /\ Truthy(c.DB_NAME) /\ Truthy(c.DB_USER)
            /\ Truthy(c.DB_PASSWORD)
    THEN Built("None",
               MySql(c.DB_USER, c.DB_PASSWORD, c.DB_HOST, DB_PORT, c.DB_NAME), 0)
    ELSE Built("None", Sqlite, 0)

\* the descriptor, or the exception of the resolver, and the resolver calls made
build_sqlalchemy_uri(c, sec) ==
    IF Truthy(c.DB_HOST) /\ Truthy(c.DB_NAME) /\ Truthy(c.DB_USER)
       /\ Truthy(c.DB_PASSWORD)
    THEN Built("None",
               MySql(c.DB_USER, c.DB_PASSWORD, c.DB_HOST, DB_PORT, c.DB_NAME), 0)
    ELSE IF Truthy(c.SECRET_ARN) /\ Truthy(c.DB_HOST) /\ Truthy(c.DB_NAME)
    THEN LET got == fetch_rds_credentials(sec)
         IN  IF got.raised # "None" THEN Built(got.raised, Sqlite, 1)
             ELSE IF Truthy(got.username) /\ Truthy(got.password)
             THEN Built("None",
                        MySql(got.username, got.password, c.DB_HOST, DB_PORT, c.DB_NAME),
                        1)
             ELSE Built("None", Sqlite, 1)
    ELSE Built("None", Sqlite, 0)

Outcome(fn, raised, username, password, uri, fetches) ==
    [fn |-> fn, raised |-> raised, username |-> username, password |-> password,
     uri |-> uri, fetches |-> fetches]

NoOut == Outcome("None", "None", NoneVal, NoneVal, Sqlite, 0)

\* fetch_rds_credentials(SECRET_ARN, AWS_REGION) on its own
Resolve ==
    /\ out = NoOut
    /\ LET got == fetch_rds_credentials(secret)
       IN  out' = Outcome("fetch_rds_credentials", got.raised, got.username,
                          got.password, Sqlite, 1)
    /\ UNCHANGED <<users, phase, pc, last, prior, boots, cfg, secret>>

\* app.config["SQLALCHEMY_DATABASE_URI"] = build_sqlalchemy_uri()
Configure ==
    /\ out = NoOut
    /\ LET built == build_sqlalchemy_uri(cfg, secret)
       IN  out' = Outcome("build_sqlalchemy_uri", built.raised, NoneVal, NoneVal,
                          built.uri, built.fetches)
    /\ UNCHANGED <<users, phase, pc, last, prior, boots, cfg, secret>>

(***************************************************************************)
(* Specifications.                                                         *)
(***************************************************************************)
Workers == {1, 2}

\* a store is fresh, or was filled by an earlier run whose seeding was skipped
InitialStores == { {}, {<<<<"a">>, A_B_C>>} }

Init ==
    /\ users \in InitialStores
    /\ phase = "boot"
    /\ pc = [w \in Workers |-> Idle]
    /\ last = NoResponse
    /\ prior = <<>>
    /\ boots = 0
    /\ cfg = NoCfg
    /\ secret = NoSecret
    /\ out = NoOut

\* one request at a time
Next ==
    \/ Bootstrap
    \/ Restart
    \/ index_get(1)
    \/ index_find(1)
    \/ index_add(1)
    \/ insert_email_write(1)
    \/ index_other(1)
    \/ Reply

Spec == Init /\ [][Next]_vars

\* two request threads
NextConc ==
    \/ Bootstrap
    \/ Restart
    \/ \E w \in Workers :
          \/ index_get(w)
          \/ index_find(w)
          \/ index_add(w)
          \/ insert_email_write(w)
          \/ index_other(w)
    \/ Reply

SpecConc == Init /\ [][NextConc]_vars

\* the configuration functions, applied to every configuration and every
\* behaviour of the secret store
InitCfg ==
    /\ users = {}
    /\ phase = "boot"
    /\ pc = [w \in Workers |-> Idle]
    /\ last = NoResponse
    /\ prior = <<>>
    /\ boots = 0
    /\ cfg \in Cfgs
    /\ secret \in Secrets
    /\ out = NoOut

NextCfg == Resolve \/ Configure

SpecCfg == InitCfg /\ [][NextCfg]_vars

(***************************************************************************)
(* Properties.                                                             *)
(***************************************************************************)
\* a step in which index produces a response
Responds == last = NoResponse /\ last' # NoResponse

Sent(r, stmt) == \E i \in 1..Len(r.stmts) : r.stmts[i] = stmt

\* C1: insert_email answers by the first check that fails, in the order empty
\* field, malformed email, existing username, and otherwise inserts the row and
\* answers with the success message, for every input and every table content.
C1_ValidationOrder ==
    [][ (Responds /\ last'.call = "insert_email") =>
          LET n == last'.args[1]
              e == last'.args[2]
          IN  /\ last'.raised = "None"
              /\ IF n = <<>> \/ e = <<>>
                 THEN last'.feedback = EmptyFieldMsg
                 ELSE IF ~HasChar(e, "@") \/ ~HasChar(e, ".")
                 THEN last'.feedback = InvalidEmailMsg
                 ELSE IF \E r \in users : r[1] = n
                 THEN last'.feedback = AlreadyExistsMsg(n)
                 ELSE /\ last'.feedback = AddedMsg(n, e)
                      /\ <<n, e>> \in users' ]_vars

\* an existing username with a malformed email was answered with the
\* invalid-email message
C1_Witness ==
    /\ last.call = "insert_email"
    /\ last.feedback = InvalidEmailMsg
    /\ Existed(users, last.args[1])

\* C2: no step removes or changes a row; a response of insert_email other than
\* success, and every other response, leaves the table as it was; a success adds
\* exactly the row (username, email); once serving, only a success changes the table.
C2_Frame ==
    [][ /\ users \subseteq users'
        /\ Responds =>
             IF IsAdded(last')
             THEN /\ <<last'.args[1], last'.args[2]>> \notin users
                  /\ users' = users \cup {<<last'.args[1], last'.args[2]>>}
             ELSE users' = users
        /\ (phase = "serving" /\ users' # users) => (Responds /\ IsAdded(last')) ]_vars

\* a success on the seeded table: the new row is there beside the three seed rows
C2_Witness ==
    /\ last # NoResponse
    /\ IsAdded(last)
    /\ users = SeedRows \cup {<<last.args[1], last.args[2]>>}

\* the response is find_emails(u) and the response before it was the success of
\* insert_email(u, "a@b.c")
SearchAfterInsert ==
    /\ last.call = "find_emails"
    /\ prior # <<>>
    /\ prior[2] = A_B_C
    /\ last.args = <<prior[1]>>

C4_RaceReturnsExistsStatus ==
    /\ \A r1, r2 \in users : r1[1] = r2[1] => r1 = r2
    /\ (last.call = "insert_email" /\ Sent(last, InsertRow) /\ ~IsAdded(last)) =>
          /\ last.raised = "None"
          /\ last.feedback = AlreadyExistsMsg(last.args[1])

\* C5: a run of the bootstrap block on an empty table leaves exactly the three
\* seed rows, and a run on a table that holds any row leaves it as it was.
C5_BootstrapIdempotent ==
    [][ (phase = "boot" /\ phase' = "serving") =>
          IF users = {} THEN users' = SeedRows ELSE users' = users ]_vars

\* the bootstrap block has run twice and the table holds exactly the seed rows
C5_Witness == boots = 2 /\ phase = "serving" /\ users = SeedRows

DirectCreds ==
    Truthy(cfg.DB_HOST) /\ Truthy(cfg.DB_NAME) /\ Truthy(cfg.DB_USER)
    /\ Truthy(cfg.DB_PASSWORD)

SecretConfigured ==
    Truthy(cfg.SECRET_ARN) /\ Truthy(cfg.DB_HOST) /\ Truthy(cfg.DB_NAME)

C7_NeverRaises ==
    /\ out.raised = "None"
    /\ (out.fn = "fetch_rds_credentials" /\ secret.result # "ok") =>
          (out.username = NoneVal /\ out.password = NoneVal)

\* C8: for a fetched payload, an object resolves to (username or user or
\* "admin", password or pass), and any other text to ("admin", text).
C8_PayloadResolution ==
    (out.fn = "fetch_rds_credentials" /\ secret.result = "ok" /\ secret.form # "absent") =>
        /\ out.raised = "None"
        /\ IF secret.form = "object"
           THEN /\ out.username =
                     PyOr(Get(secret.fields, "username"),
                          PyOr(Get(secret.fields, "user"), "admin"))
                /\ out.password =
                     PyOr(Get(secret.fields, "password"), Get(secret.fields, "pass"))
           ELSE /\ out.username = "admin"
                /\ out.password = secret.text

\* C9: a search with an empty keyword answers "User not found" without a query;
\* otherwise it answers with the rows whose username contains the keyword, and
\* with "User not found" when there is none.
C9_SearchBySubstring ==
    (last.method = "POST" /\ "user_keyword" \in DOMAIN last.form) =>
        LET kw == Strip(last.form["user_keyword"])
            hits == {r \in users : Contains(r[1], kw)}
        IN  IF kw = <<>>
            THEN last.name_emails = UserNotFound /\ last.stmts = <<>>
            ELSE IF hits = {}
            THEN last.name_emails = UserNotFound
            ELSE last.name_emails = RowList(hits)

\* C10: a response never carries both results and feedback; GET and a POST of
\* neither shape render nothing and send no statement; a POST with user_keyword
\* only searches; a POST with username and useremail and no user_keyword only
\* calls insert_email, on the stripped values, and renders its status.
C10_Dispatch ==
    [][ Responds =>
          LET r == last'
              keyword == "user_keyword" \in DOMAIN r.form
              pair == "username" \in DOMAIN r.form /\ "useremail" \in DOMAIN r.form
          IN  /\ r.name_emails = NoRows \/ r.feedback = NoFeedback
              /\ r.method = "GET" =>
                   /\ r.name_emails = NoRows /\ r.feedback = NoFeedback
                   /\ r.stmts = <<>> /\ users' = users
              /\ (r.method = "POST" /\ keyword) =>
                   /\ r.call \in {"find_emails", "None"}
                   /\ r.stmts \in {<<>>, <<SelectLike>>}
                   /\ r.name_emails.tag \in {"rows", "User not found"}
                   /\ r.feedback = NoFeedback
                   /\ users' = users
              /\ (r.method = "POST" /\ ~keyword /\ pair) =>
                   /\ r.call = "insert_email"
                   /\ r.args = <<Strip(r.form["username"]), Strip(r.form["useremail"])>>
                   /\ ~Sent(r, SelectLike)
                   /\ r.name_emails = NoRows
                   /\ r.feedback # NoFeedback
              /\ (r.method = "POST" /\ ~keyword /\ ~pair) =>
                   /\ r.call = "None"
                   /\ r.name_emails = NoRows /\ r.feedback = NoFeedback
                   /\ r.stmts = <<>> /\ users' = users ]_vars

\* a POST carrying all three fields was answered by a search
C10_Witness ==
    /\ last.method = "POST"
    /\ DOMAIN last.form = {"user_keyword", "username", "useremail"}
    /\ last.call = "find_emails"

====
